---- MODULE Spec2Model ----
(***************************************************************************)
(* Model of difacto's block-coordinate-descent utilities                   *)
(* (src/bcd/bcd_utils.h: FeatureBlock, FeaGroupStats, BlockTracker, Delta) *)
(* and of the weight store's indexed access (src/sgd/sgd_updater.h:        *)
(* SGDModel::operator[]).                                                  *)
(*                                                                         *)
(* Each component has its own specification (SpecTracker, SpecTrackerFair, *)
(* SpecPartition, SpecFind, SpecStats, SpecStore, SpecDelta); the state of *)
(* the components a specification does not exercise is parked at a fixed   *)
(* value.                                                                  *)
(***************************************************************************)
EXTENDS Integers, Sequences, FiniteSets, TLC

VARIABLES
  \* ---- the build
  shift_ub,  \* what it makes of a shift by the full width: "zero" | "masked"
  \* ---- BlockTracker (bcd_utils.h:113-132)
  pc,        \* position of every thread inside Finish / Wait
  arg,       \* the id argument of the call a thread is in
  mu_,       \* std::mutex mu_: 0 when free, else the owning thread
  done_,     \* std::vector<int> done_
  written,   \* history: ids for which some Finish(id) has executed done_[id] = 1
  \* ---- FeatureBlock::Partition (bcd_utils.h:21-45)
  part_st,       \* "off" | "input" | "ok" | "fatal"
  feagrp_nbits,  \* argument
  feagrps,       \* argument: sequence of <<tag, partitions>>
  feablks,       \* output
  \* ---- FeatureBlock::FindPosition (bcd_utils.h:53-71)
  find_st,       \* "off" | "input" | "ok" | "fatal"
  feaids,        \* argument: sorted feature ids
  find_blks,     \* argument: blocks
  positions,     \* output
  \* ---- FeaGroupStats (bcd_utils.h:78-108)
  stat_st,       \* "off" | "run" | "corrupt"
  nbit_,
  value_,        \* std::vector<real_t> value_, indexed from 0
  expect,        \* history: what the row blocks passed to Add so far add up to
  adds,          \* number of Add calls so far
  got,           \* the vector Get returned, if it was called since the last Add
  \* ---- SGDModel (sgd_updater.h:78-123)
  store_st,      \* "off" | "new" | "ready" | "fatal" | "crashed"
  dense_, start_id_, end_id_,
  model_vec_,    \* size of the dense vector
  model_map_,    \* keys of the sparse map
  acc_id,        \* id of the last operator[] call (-1: none yet)
  acc_res,       \* its outcome: "none" | "entry" | "created" | "fatal" | "garbage" | "crash"
  \* ---- Delta (bcd_utils.h:134-152)
  delta_st,      \* "off" | "init" | "updated"
  delta,         \* the trust-region value, in units of 0.05
  delta_w,       \* argument of the last Update
  max_val        \* argument of the last Update

trackerVars == <<pc, arg, mu_, done_, written>>
partVars    == <<part_st, feagrp_nbits, feagrps, feablks>>
findVars    == <<find_st, feaids, find_blks, positions>>
statVars    == <<stat_st, nbit_, value_, expect, adds, got>>
storeVars   == <<store_st, dense_, start_id_, end_id_, model_vec_, model_map_, acc_id, acc_res>>
deltaVars   == <<delta_st, delta, delta_w, max_val>>
vars == <<shift_ub, trackerVars, partVars, findVars, statVars, storeVars, deltaVars>>

\* ---------------------------------------------------------------- parked components

OffTracker ==
  /\ pc = <<>> /\ arg = <<>> /\ mu_ = 0 /\ done_ = <<>> /\ written = {}

OffPart ==
  /\ part_st = "off" /\ feagrp_nbits = 0 /\ feagrps = <<>> /\ feablks = <<>>

OffFind ==
  /\ find_st = "off" /\ feaids = <<>> /\ find_blks = <<>> /\ positions = <<>>

OffStats ==
  /\ stat_st = "off" /\ nbit_ = 0 /\ value_ = <<>> /\ expect = <<>> /\ adds = 0 /\ got = <<>>

OffStore ==
  /\ store_st = "off" /\ dense_ = FALSE /\ start_id_ = 0 /\ end_id_ = 0
  /\ model_vec_ = 0 /\ model_map_ = {} /\ acc_id = -1 /\ acc_res = "none"

OffDelta ==
  /\ delta_st = "off" /\ delta = 0 /\ delta_w = 0 /\ max_val = 0

\* ================================================================ BlockTracker

NumThreads == 3
NumBlks == 2

Threads == 1..NumThreads
Blks == 0..(NumBlks - 1)

\* BlockTracker(int num_blks) : done_(num_blks): every flag value-initialised to 0.
InitTracker ==
  /\ pc = [t \in Threads |-> "idle"]
  /\ arg = [t \in Threads |-> 0]
  /\ mu_ = 0
  /\ done_ = [b \in Blks |-> 0]
  /\ written = {}

\* A thread that is in no call ("idle", or "w_ret" after Wait returned; arg is the
\* id of the call a thread is in or of the Wait it returned from) calls Finish(id).
CallFinish(t) ==
  /\ pc[t] \in {"idle", "w_ret"}
  /\ \E id \in Blks : arg' = [arg EXCEPT ![t] = id]
  /\ pc' = [pc EXCEPT ![t] = "f_lock"]
  /\ UNCHANGED <<mu_, done_, written>>

\* mu_.lock()
FinishLock(t) ==
  /\ pc[t] = "f_lock"
  /\ mu_ = 0
  /\ mu_' = t
  /\ pc' = [pc EXCEPT ![t] = "f_write"]
  /\ UNCHANGED <<arg, done_, written>>

FinishStoreAll(d, id) == [b \in DOMAIN d |-> 1]

\* done_[id] = 1
FinishStore(d, id) == [d EXCEPT ![id] = 1]

FinishWrite(t) ==
  /\ pc[t] = "f_write"
  /\ mu_ = t
  /\ done_' = FinishStore(done_, arg[t])
  /\ written' = written \cup {arg[t]}
  /\ pc' = [pc EXCEPT ![t] = "f_unlock"]
  /\ UNCHANGED <<arg, mu_>>

\* mu_.unlock()
FinishUnlock(t) ==
  /\ pc[t] = "f_unlock"
  /\ mu_ = t
  /\ mu_' = 0
  /\ pc' = [pc EXCEPT ![t] = "f_notify"]
  /\ UNCHANGED <<arg, done_, written>>

NotifyNone(p) == p

\* cond_.notify_all(): every thread blocked in cond_.wait is woken and goes on to
\* re-acquire the mutex.
NotifyAll(p) == [u \in DOMAIN p |-> IF p[u] = "w_sleep" THEN "w_relock" ELSE p[u]]

\* cond_.notify_all(), then Finish returns.
FinishNotify(t) ==
  /\ pc[t] = "f_notify"
  /\ pc' = [NotifyAll(pc) EXCEPT ![t] = "idle"]
  /\ arg' = [arg EXCEPT ![t] = 0]
  /\ UNCHANGED <<mu_, done_, written>>

CallWait(t) ==
  /\ pc[t] \in {"idle", "w_ret"}
  /\ \E id \in Blks : arg' = [arg EXCEPT ![t] = id]
  /\ pc' = [pc EXCEPT ![t] = "w_lock"]
  /\ UNCHANGED <<mu_, done_, written>>

\* std::unique_lock<std::mutex> lk(mu_), and the re-acquisition of the mutex inside
\* cond_.wait after a wake-up.
WaitLock(t) ==
  /\ pc[t] \in {"w_lock", "w_relock"}
  /\ mu_ = 0
  /\ mu_' = t
  /\ pc' = [pc EXCEPT ![t] = "w_test"]
  /\ UNCHANGED <<arg, done_, written>>

WaitPredAny(d, id) == \E b \in DOMAIN d : d[b] = 1

\* the predicate [this, id] { return done_[id] == 1; }
WaitPred(d, id) == d[id] = 1

\* cond_.wait(lk, pred) is `while (!pred()) wait(lk);`: with the mutex held the
\* predicate is tested; when it holds Wait returns (lk's destructor unlocks), else
\* the mutex is released and the thread blocks, atomically.
WaitTest(t) ==
  /\ pc[t] = "w_test"
  /\ mu_ = t
  /\ mu_' = 0
  /\ pc' = [pc EXCEPT ![t] = IF WaitPred(done_, arg[t]) THEN "w_ret" ELSE "w_sleep"]
  /\ UNCHANGED <<arg, done_, written>>

\* a spurious wake-up of std::condition_variable::wait
SpuriousWake(t) ==
  /\ pc[t] = "w_sleep"
  /\ pc' = [pc EXCEPT ![t] = "w_relock"]
  /\ UNCHANGED <<arg, mu_, done_, written>>

ThreadStep(t) ==
  \/ FinishLock(t)
  \/ FinishWrite(t)
  \/ FinishUnlock(t)
  \/ FinishNotify(t)
  \/ WaitLock(t)
  \/ WaitTest(t)

NextTracker ==
  /\ \E t \in Threads :
       \/ CallFinish(t)
       \/ CallWait(t)
       \/ ThreadStep(t)
       \/ SpuriousWake(t)
  /\ UNCHANGED <<shift_ub, partVars, findVars, statVars, storeVars, deltaVars>>

InitTrackerOnly ==
  shift_ub = "zero" /\ InitTracker /\ OffPart /\ OffFind /\ OffStats /\ OffStore /\ OffDelta

SpecTracker == InitTrackerOnly /\ [][NextTracker]_vars

\* the steps of a call that need nothing but the processor
RunStep(t) ==
  /\ FinishWrite(t) \/ FinishUnlock(t) \/ FinishNotify(t) \/ WaitTest(t)
  /\ UNCHANGED <<shift_ub, partVars, findVars, statVars, storeVars, deltaVars>>

\* the steps that acquire mu_
LockStep(t) ==
  /\ FinishLock(t) \/ WaitLock(t)
  /\ UNCHANGED <<shift_ub, partVars, findVars, statVars, storeVars, deltaVars>>

\* Fair scheduling: a thread that can take a step of its call eventually takes it;
\* a thread contending for the mutex gets it if it is free again and again.
\* Nothing forces a thread to make a call, nor a spurious wake-up to happen.
SpecTrackerFair ==
  /\ InitTrackerOnly
  /\ [][NextTracker]_vars
  /\ \A t \in Threads : WF_vars(RunStep(t)) /\ SF_vars(LockStep(t))

\* ---------------------------------------------------------------- tracker claims

Waiting == {"w_lock", "w_test", "w_sleep", "w_relock"}

\* C1: a Wait(id) that has returned implies that some thread called Finish(id), and
\* went as far as its write, and that the flag of id is done; a Finish on another
\* id or a spurious wake-up does not let it return.
C1_WaitAfterFinish ==
  \A t \in Threads :
    pc[t] = "w_ret" => (done_[arg[t]] = 1 /\ arg[t] \in written)

\* a waiter on one id has returned while a waiter on another, pending id is still
\* blocked after that Finish woke it
C1_Witness ==
  \E t \in Threads, u \in Threads :
    /\ pc[t] = "w_ret"
    /\ pc[u] \in {"w_sleep", "w_relock"}
    /\ arg[u] # arg[t]
    /\ done_[arg[u]] = 0

\* C2: under fair scheduling, a Wait(id) whose flag is done (whether it was blocked
\* before Finish(id) or was issued after it) eventually returns, and a waiter that
\* tests a done flag never goes (back) to sleep.
C2_WaitReturns ==
  /\ \A t \in Threads :
       (pc[t] \in Waiting /\ done_[arg[t]] = 1) ~> (pc[t] = "w_ret")
  /\ [][\A t \in Threads :
          (pc[t] = "w_test" /\ done_[arg[t]] = 1) => pc'[t] # "w_sleep"]_vars

\* a waiter that was asleep has been woken with its flag done, while another block
\* is still pending
C2_Witness ==
  \E t \in Threads :
    /\ pc[t] = "w_relock"
    /\ done_[arg[t]] = 1
    /\ \E b \in Blks : done_[b] = 0

\* C10: the flag of a block is done exactly when some Finish(id) has performed its
\* write; a flag is never reset, only the write step of Finish changes a flag, and
\* it changes the flag of its own id only.
C10_FlagsExact ==
  /\ [](\A b \in Blks : done_[b] \in {0, 1} /\ (done_[b] = 1 <=> b \in written))
  /\ [][/\ \A b \in Blks : done_[b] = 1 => done_'[b] = 1
        /\ done_' # done_ =>
             \E t \in Threads :
               /\ pc[t] = "f_write"
               /\ pc'[t] = "f_unlock"
               /\ \A b \in Blks \ {arg[t]} : done_'[b] = done_[b]]_vars

\* two Finish calls on different ids were in progress at once, one has written
C10_Witness ==
  \E t \in Threads, u \in Threads :
    /\ pc[t] = "f_notify"
    /\ pc[u] = "f_lock"
    /\ arg[t] # arg[u]
    /\ done_[arg[t]] = 1
    /\ done_[arg[u]] = 0

\* ================================================================ FeatureBlock::Partition

\* feaid_t is FeaidBytes bytes wide here (8 in the program); FEAID_NBITS is its
\* width in bits and arithmetic on feaid_t is modulo 2^FEAID_NBITS.
FeaidBytes == 2
FEAID_NBITS == 8 * FeaidBytes

RECURSIVE Pow2(_)
Pow2(n) == IF n <= 0 THEN 1 ELSE 2 * Pow2(n - 1)

\* std::numeric_limits<feaid_t>::max()
key_max == Pow2(FEAID_NBITS) - 1

\* static_cast<feaid_t>(int)
ToFeaid(x) == x % Pow2(FEAID_NBITS)

RECURSIVE RevBytes(_, _)
RevBytes(x, k) ==
  IF k = 0 THEN 0
  ELSE (x % 256) * Pow2(8 * (k - 1)) + RevBytes(x \div 256, k - 1)

\* ReverseBytes: the byte-reversed representation of an identifier
ReverseBytes(x) == RevBytes(x, FeaidBytes)

RECURSIVE BitOr(_, _, _)
BitOr(a, b, k) ==
  IF k = 0 THEN 0
  ELSE (IF a % 2 = 1 \/ b % 2 = 1 THEN 1 ELSE 0) + 2 * BitOr(a \div 2, b \div 2, k - 1)

\* x << n on feaid_t, for x < 2^FEAID_NBITS: the low FEAID_NBITS - n bits of x moved
\* up by n (the product modulo 2^FEAID_NBITS). A shift by the full width (the case
\* feagrp_nbits = 0) is undefined: a build either shifts every bit out ("zero") or
\* takes the count modulo the width ("masked"), which leaves x as it is.
ShiftLeft(x, n, ub) ==
  IF n >= FEAID_NBITS
  THEN (IF ub = "masked" THEN x ELSE 0)
  ELSE (x % Pow2(FEAID_NBITS - n)) * Pow2(n)

\* x >> n on feaid_t, with the same two outcomes for n = width
ShiftRight(x, n, ub) ==
  IF n >= FEAID_NBITS
  THEN (IF ub = "masked" THEN x ELSE 0)
  ELSE x \div Pow2(n)

Range(b, e) == [begin |-> b, end |-> e]

\* Range::Valid
Valid(r) == r.begin <= r.end

\* Range::Segment(idx, nparts): the idx-th of nparts equal-width, contiguous
\* sub-intervals; the last one ends at the range's end.
Segment(r, idx, nparts) ==
  Range(r.begin + ((r.end - r.begin) * idx) \div nparts,
        IF idx = nparts - 1 THEN r.end
        ELSE r.begin + ((r.end - r.begin) * (idx + 1)) \div nparts)

\* lines 29-32: the range g of the group with tag f_first
GroupRange(nbits, f_first, ub) ==
  LET begin == ShiftLeft(ToFeaid(f_first), FEAID_NBITS - nbits, ub)
  IN  Range(ReverseBytes(begin),
            ReverseBytes(BitOr(ShiftRight(key_max, nbits, "zero"), begin, FEAID_NBITS)))

\* lines 33-36: the segments pushed for one group, in order
GroupSegments(nbits, f, ub) ==
  LET g == GroupRange(nbits, f[1], ub)
  IN  [i \in 1..(IF f[2] > 0 THEN f[2] ELSE 0) |-> Segment(g, i - 1, f[2])]

RECURSIVE Pushed(_, _, _)
\* lines 27-37: feablks after the loop over feagrps
Pushed(nbits, grps, ub) ==
  IF grps = <<>> THEN <<>>
  ELSE GroupSegments(nbits, Head(grps), ub) \o Pushed(nbits, Tail(grps), ub)

\* the CHECKs of lines 24, 28 and 35
PartitionChecks(nbits, grps, ub) ==
  /\ nbits % 4 = 0
  /\ \A k \in DOMAIN grps : Pow2(nbits) > grps[k][1]
  /\ LET pushed == Pushed(nbits, grps, ub)
     IN  \A k \in DOMAIN pushed : Valid(pushed[k])

MinBegin(s, idx) == CHOOSE m \in {s[i].begin : i \in idx} : \A i \in idx : m <= s[i].begin

RECURSIVE SortOutcomes(_, _)
\* lines 38-39: std::sort by begin. The sort is not stable, so blocks with equal
\* begin may come out in any order: the set of all outcomes.
SortOutcomes(s, idx) ==
  IF idx = {} THEN {<<>>}
  ELSE UNION {{<<s[i]>> \o q : q \in SortOutcomes(s, idx \ {i})} :
                i \in {j \in idx : s[j].begin = MinBegin(s, idx)}}

\* line 42: if (before.end < after.begin) ++before.end, for every adjacent pair;
\* the bump of blks[i-1] is not read again by a later iteration
BumpEnds(blks) ==
  [i \in DOMAIN blks |->
     IF i < Len(blks) /\ blks[i].end < blks[i + 1].begin
     THEN Range(blks[i].begin, blks[i].end + 1)
     ELSE blks[i]]

NoOverlapCheck(blks) == TRUE

\* line 43: CHECK_LE(before.end, after.begin), for every adjacent pair
OverlapCheck(blks) ==
  \A i \in 1..(Len(blks) - 1) : blks[i].end <= blks[i + 1].begin

MaxGroups == 2
MaxParts == 2
Tags == {-1, 0, 1, 3, 16}
GroupBits == {0, 2, 4, 8}

RECURSIVE SeqsUpTo(_, _)
\* the sequences over S of length at most n
SeqsUpTo(S, n) ==
  IF n = 0 THEN {<<>>}
  ELSE SeqsUpTo(S, n - 1) \cup
       {Append(q, x) : q \in {r \in SeqsUpTo(S, n - 1) : Len(r) = n - 1}, x \in S}

InitPartition ==
  /\ part_st = "input"
  /\ feagrp_nbits \in GroupBits
  /\ feagrps \in SeqsUpTo(Tags \X (0..MaxParts), MaxGroups)
  /\ shift_ub \in {"zero", "masked"}
  /\ feablks = <<>>

\* FeatureBlock::Partition(feagrp_nbits, feagrps, &feablks)
Partition ==
  /\ part_st = "input"
  /\ IF ~PartitionChecks(feagrp_nbits, feagrps, shift_ub)
     THEN part_st' = "fatal" /\ feablks' = <<>>
     ELSE LET pushed == Pushed(feagrp_nbits, feagrps, shift_ub)
          IN  \E sorted \in SortOutcomes(pushed, DOMAIN pushed) :
                LET bumped == BumpEnds(sorted)
                IN  /\ feablks' = bumped
                    /\ part_st' = IF OverlapCheck(bumped) THEN "ok" ELSE "fatal"
  /\ UNCHANGED <<feagrp_nbits, feagrps>>

NextPartition ==
  /\ Partition
  /\ UNCHANGED <<shift_ub, trackerVars, findVars, statVars, storeVars, deltaVars>>

InitPartitionOnly ==
  OffTracker /\ InitPartition /\ OffFind /\ OffStats /\ OffStore /\ OffDelta

SpecPartition == InitPartitionOnly /\ [][NextPartition]_vars

\* ---------------------------------------------------------------- partition claims

Requested == {k \in DOMAIN feagrps : feagrps[k][2] > 0}

\* C4: the blocks cover exactly the union of the requested groups' subspaces, each
\* from its low boundary up to and including its high boundary: every identifier
\* of a requested group lies in exactly one block, and every identifier in a block
\* belongs to a requested group. (It is enough to look at the identifiers at and
\* next to the boundaries.)
C4_ExactCover ==
  part_st = "ok" =>
    LET G(k) == GroupRange(feagrp_nbits, feagrps[k][1], shift_ub)
        pts == UNION {{feablks[i].begin, feablks[i].end - 1, feablks[i].end} :
                        i \in DOMAIN feablks}
               \cup UNION {{G(k).begin, G(k).end} : k \in Requested}
        holders(x) == {i \in DOMAIN feablks : feablks[i].begin <= x /\ x < feablks[i].end}
        inGroup(x) == \E k \in Requested : G(k).begin <= x /\ x <= G(k).end
    IN  \A x \in pts :
          /\ inGroup(x) => Cardinality(holders(x)) = 1
          /\ holders(x) # {} => inGroup(x)

\* ================================================================ FeatureBlock::FindPosition

RECURSIVE UpperBound(_, _, _, _)
UpperBound(ids, first, count, value) ==
  IF count <= 0 THEN first
  ELSE LET step == count \div 2
       IN  IF ids[first + step + 1] <= value
           THEN UpperBound(ids, first + step + 1, count - (step + 1), value)
           ELSE UpperBound(ids, first, step, value)

RECURSIVE LowerBound(_, _, _, _)
\* std::lower_bound(first, first + count, value) by bisection, on 0-based
\* positions (position i is ids[i + 1]): the first position whose id is >= value
LowerBound(ids, first, count, value) ==
  IF count <= 0 THEN first
  ELSE LET step == count \div 2
       IN  IF ids[first + step + 1] < value
           THEN LowerBound(ids, first + step + 1, count - (step + 1), value)
           ELSE LowerBound(ids, first, step, value)

RECURSIVE FindLoop(_, _, _, _)
\* lines 65-70: the positions of blocks i..n, searching from the cursor cur
FindLoop(ids, blks, i, cur) ==
  IF i > Len(blks) THEN <<>>
  ELSE LET lb == LowerBound(ids, cur, Len(ids) - cur, blks[i].begin)
           ub == LowerBound(ids, lb, Len(ids) - lb, blks[i].end)
       IN  <<Range(lb, ub)>> \o FindLoop(ids, blks, i + 1, ub)

FindChecksValidOnly(blks) == \A i \in DOMAIN blks : Valid(blks[i])

\* lines 57-58: every block Valid, and CHECK_LE(feablks[i-1].end, feablks[i].begin)
FindChecks(blks) ==
  /\ \A i \in DOMAIN blks : Valid(blks[i])
  /\ \A i \in 2..Len(blks) : blks[i - 1].end <= blks[i].begin

MaxId == 2
MaxIds == 3
MaxBlks == 2

IsSorted(q) == \A i \in 1..(Len(q) - 1) : q[i] <= q[i + 1]

\* the caller passes feature ids sorted ascending; any block list
InitFind ==
  /\ find_st = "input"
  /\ feaids \in {q \in SeqsUpTo(0..MaxId, MaxIds) : IsSorted(q)}
  /\ find_blks \in SeqsUpTo({Range(b, e) : b \in 0..MaxId, e \in 0..(MaxId + 1)}, MaxBlks)
  /\ positions = <<>>

\* FeatureBlock::FindPosition(feaids, feablks, &positions)
FindPosition ==
  /\ find_st = "input"
  /\ IF FindChecks(find_blks)
     THEN /\ find_st' = "ok"
          /\ positions' = FindLoop(feaids, find_blks, 1, 0)
     ELSE /\ find_st' = "fatal"
          /\ positions' = <<>>
  /\ UNCHANGED <<feaids, find_blks>>

NextFind ==
  /\ FindPosition
  /\ UNCHANGED <<shift_ub, trackerVars, partVars, statVars, storeVars, deltaVars>>

InitFindOnly ==
  shift_ub = "zero" /\ OffTracker /\ OffPart /\ InitFind /\ OffStats /\ OffStore /\ OffDelta

SpecFind == InitFindOnly /\ [][NextFind]_vars

\* ---------------------------------------------------------------- position claims

\* C5: for valid, sorted, non-overlapping blocks and sorted ids, FindPosition
\* returns one row range per block, in block order, with non-decreasing starts,
\* and every id whose value is in [block.begin, block.end) has its position inside
\* that block's range.
C5_PositionsCoverIds ==
  (find_st = "ok" /\ FindChecks(find_blks)) =>
    /\ Len(positions) = Len(find_blks)
    /\ \A i \in 1..(Len(positions) - 1) : positions[i].begin <= positions[i + 1].begin
    /\ \A i \in DOMAIN positions :
         /\ positions[i].begin <= positions[i].end
         /\ \A k \in DOMAIN feaids :
              (find_blks[i].begin <= feaids[k] /\ feaids[k] < find_blks[i].end)
                => (positions[i].begin <= k - 1 /\ k - 1 < positions[i].end)

\* two non-empty blocks with a gap, each holding ids, the later block's ids found
\* after the cursor moved past an id that is in neither
C5_Witness ==
  /\ find_st = "ok"
  /\ Len(find_blks) = 2
  /\ find_blks[1].end < find_blks[2].begin
  /\ positions[1].begin < positions[1].end
  /\ positions[1].end < positions[2].begin
  /\ positions[2].begin < positions[2].end

Invalid(blks) == \E i \in DOMAIN blks : blks[i].begin > blks[i].end
Overlapping(blks) == \E i \in 2..Len(blks) : blks[i - 1].end > blks[i].begin
Gapped(blks) == \E i \in 2..Len(blks) : blks[i - 1].end < blks[i].begin

MaxRows == 11
MaxAdds == 2

\* int skip_ = 10
skip_ == 10

\* the rows that occur in the row blocks, each the sequence of its nonzero feature
\* ids: a small id, the lowest id of group tag 1 (for 4 tag bits), the largest id
RowKinds ==
  {<<>>, <<1>>, <<Pow2(FEAID_NBITS - 4)>>, <<key_max>>, <<1, Pow2(FEAID_NBITS - 4)>>}

\* a row block: its rows in order; rowblk.size is Len(rowblk), and
\* rowblk.index[offset[i] .. offset[i+1]) is row i. The first row, the last row
\* and the rows between them are chosen freely among RowKinds.
RowBlocks ==
  {[i \in 1..n |-> IF i = 1 THEN first ELSE IF i = n THEN last ELSE mid] :
     n \in 0..MaxRows, first \in RowKinds, mid \in RowKinds, last \in RowKinds}

\* FeaGroupStats(nbit), for an nbit its CHECKs accept: value_.resize((1<<nbit)+2)
InitStats ==
  /\ stat_st = "run"
  /\ nbit_ \in {0, 4}
  /\ shift_ub \in {"zero", "masked"}
  /\ value_ = [k \in 0..(Pow2(nbit_) + 1) |-> 0]
  /\ expect = [k \in 0..(Pow2(nbit_) + 1) |-> 0]
  /\ adds = 0
  /\ got = <<>>

\* line 89: the rows the loop visits, i = 0, skip_, 2*skip_, ... < rowblk.size
SampledRows(rowblk, skip) == {i \in 0..(Len(rowblk) - 1) : i % skip = 0}

\* line 92: the slot a feature id increments, f >> (FEAID_NBITS - nbit_)
Slot(f, nbit, ub) == ShiftRight(f, FEAID_NBITS - nbit, ub)

RECURSIVE Increments(_, _, _, _, _)
\* lines 89-95: the slots incremented, in order, by rows i, i + skip, ... of rowblk
Increments(rowblk, i, skip, nbit, ub) ==
  IF i >= Len(rowblk) THEN <<>>
  ELSE [j \in DOMAIN rowblk[i + 1] |-> Slot(rowblk[i + 1][j], nbit, ub)]
       \o Increments(rowblk, i + skip, skip, nbit, ub)

\* lines 88-97: value_ after Add(rowblk), when every increment stays inside value_
AddResult(v, rowblk, nbit, ub) ==
  LET incs == Increments(rowblk, 0, skip_, nbit, ub)
      nrows == Cardinality(SampledRows(rowblk, skip_))
      top == Pow2(nbit)
  IN  [k \in DOMAIN v |->
         v[k] + Cardinality({j \in DOMAIN incs : incs[j] = k})
              + (IF k = top THEN nrows ELSE 0)
              + (IF k = top + 1 THEN Len(rowblk) ELSE 0)]

\* an increment ++value_[slot] of a sampled row that falls outside value_
WritesOutside(v, rowblk, nbit, ub) ==
  LET incs == Increments(rowblk, 0, skip_, nbit, ub)
  IN  \E j \in DOMAIN incs : incs[j] \notin DOMAIN v

\* what a batch should add: per group tag the number of features with that tag in
\* rows 0, 10, 20, ..., then the number of those rows, then the number of all rows
Expected(e, rowblk, nbit) ==
  LET rows == {i \in 1..Len(rowblk) : (i - 1) % 10 = 0}
      top == Pow2(nbit)
      seen == UNION {{<<i, j>> : j \in DOMAIN rowblk[i]} : i \in rows}
      tag(f) == f \div Pow2(FEAID_NBITS - nbit)
  IN  [k \in DOMAIN e |->
         e[k] + (IF k < top
                 THEN Cardinality({p \in seen : tag(rowblk[p[1]][p[2]]) = k})
                 ELSE 0)
              + (IF k = top THEN Cardinality(rows) ELSE 0)
              + (IF k = top + 1 THEN Len(rowblk) ELSE 0)]

\* FeaGroupStats::Add(rowblk). An increment outside value_ is a write outside the
\* vector's storage: the object is corrupt from then on.
Add ==
  /\ stat_st = "run"
  /\ adds < MaxAdds
  /\ \E rowblk \in RowBlocks :
       /\ expect' = Expected(expect, rowblk, nbit_)
       /\ IF WritesOutside(value_, rowblk, nbit_, shift_ub)
          THEN stat_st' = "corrupt" /\ value_' = value_
          ELSE stat_st' = "run" /\ value_' = AddResult(value_, rowblk, nbit_, shift_ub)
  /\ adds' = adds + 1
  /\ got' = <<>>
  /\ UNCHANGED nbit_

\* FeaGroupStats::Get(&value)
Get ==
  /\ stat_st = "run"
  /\ got' = value_
  /\ UNCHANGED <<stat_st, nbit_, value_, expect, adds>>

NextStats ==
  /\ Add \/ Get
  /\ UNCHANGED <<shift_ub, trackerVars, partVars, findVars, storeVars, deltaVars>>

InitStatsOnly ==
  OffTracker /\ OffPart /\ OffFind /\ InitStats /\ OffStore /\ OffDelta

SpecStats == InitStatsOnly /\ [][NextStats]_vars

\* ---------------------------------------------------------------- sampler claims

\* C9: after any sequence of Add calls the sampler is intact and value_ holds, per
\* group tag, the features of rows 0, 10, 20, ... of every batch, then the number
\* of those rows and the number of all rows; Get returns exactly that vector.
C9_CountsExact ==
  /\ stat_st = "run"
  /\ value_ = expect
  /\ got # <<>> => got = expect

\* C9 restricted to samplers with at least 4 tag bits
C9_CountsExactFrom4 ==
  nbit_ >= 4 => C9_CountsExact

\* ================================================================ SGDModel

MaxKey == 3

\* SGDModel(): nothing is set before Init
InitStore ==
  /\ store_st = "new"
  /\ dense_ = FALSE /\ start_id_ = 0 /\ end_id_ = 0
  /\ model_vec_ = 0 /\ model_map_ = {}
  /\ acc_id = -1 /\ acc_res = "none"

\* SGDModel::Init(V_dim, start_id, end_id): fixes the owned range and chooses the
\* backing; the dense vector holds one default entry per id of the range
ModelInit ==
  /\ store_st = "new"
  /\ \E s \in 0..MaxKey, e \in 0..MaxKey, d \in BOOLEAN :
       /\ s <= e
       /\ start_id_' = s /\ end_id_' = e /\ dense_' = d
       /\ model_vec_' = IF d THEN e - s ELSE 0
  /\ store_st' = "ready"
  /\ UNCHANGED <<model_map_, acc_id, acc_res>>

\* line 95: CHECK_GE(id, start_id_)
IndexCheck(id, s) == id >= s

\* SGDModel::operator[](id), lines 94-98. Past the dense vector's size the index is
\* out of bounds: the call hands back a reference to whatever lies there or the
\* process dies. The sparse map creates the entry it does not hold.
Index ==
  /\ store_st = "ready"
  /\ \E id \in 0..(MaxKey + 1) :
       /\ acc_id' = id
       /\ IF ~IndexCheck(id, start_id_)
          THEN /\ acc_res' = "fatal"
               /\ store_st' = "fatal"
               /\ UNCHANGED model_map_
          ELSE IF dense_
          THEN IF id - start_id_ < model_vec_
               THEN /\ acc_res' = "entry"
                    /\ UNCHANGED <<store_st, model_map_>>
               ELSE \/ /\ acc_res' = "garbage"
                       /\ UNCHANGED <<store_st, model_map_>>
                    \/ /\ acc_res' = "crash"
                       /\ store_st' = "crashed"
                       /\ UNCHANGED model_map_
          ELSE /\ acc_res' = IF id - start_id_ \in model_map_ THEN "entry" ELSE "created"
               /\ model_map_' = model_map_ \cup {id - start_id_}
               /\ UNCHANGED store_st
  /\ UNCHANGED <<dense_, start_id_, end_id_, model_vec_>>

NextStore ==
  /\ ModelInit \/ Index
  /\ UNCHANGED <<shift_ub, trackerVars, partVars, findVars, statVars, deltaVars>>

InitStoreOnly ==
  shift_ub = "zero" /\ OffTracker /\ OffPart /\ OffFind /\ OffStats /\ InitStore /\ OffDelta

SpecStore == InitStoreOnly /\ [][NextStore]_vars

\* ---------------------------------------------------------------- store claims

\* C6: indexed access with an id outside [start_id_, end_id_) is a fatal check
\* failure, below the range and at or above its end, in either backing; it returns
\* no entry and creates none.
C6_OutOfRangeFatal ==
  (acc_id # -1 /\ (acc_id < start_id_ \/ acc_id >= end_id_)) => acc_res = "fatal"

\* ================================================================ Delta

\* real_t values are counted in units of 0.05: .1 is 2, init_val = 1.0 is 20,
\* max_val = 5.0 is 100
Tenth == 2
InitVal == 20
DefaultMaxVal == 100

DwBound == 52

\* the max_val arguments tried: below, at and above .1, and the default
MaxVals == {0, 1, Tenth, 3, InitVal, DefaultMaxVal}

Abs(x) == IF x < 0 THEN -x ELSE x
Min(a, b) == IF a < b THEN a ELSE b

\* Delta::Init(len, &delta, init_val): one of the len values
InitDelta ==
  /\ delta_st = "init"
  /\ delta = InitVal
  /\ delta_w = 0
  /\ max_val = 0

UpdatedNoAbs(dw, mv) == Min(mv, dw * 2 + Tenth)

\* line 149: std::min(max_val, static_cast<real_t>(std::abs(delta_w) * 2.0 + .1))
Updated(dw, mv) == Min(mv, Abs(dw) * 2 + Tenth)

\* Delta::Update(delta_w, &delta, max_val)
Update ==
  /\ delta_st \in {"init", "updated"}
  /\ \E dw \in (-DwBound)..DwBound, mv \in MaxVals :
       /\ delta' = Updated(dw, mv)
       /\ delta_w' = dw
       /\ max_val' = mv
  /\ delta_st' = "updated"

NextDelta ==
  /\ Update
  /\ UNCHANGED <<shift_ub, trackerVars, partVars, findVars, statVars, storeVars>>

InitDeltaOnly ==
  shift_ub = "zero" /\ OffTracker /\ OffPart /\ OffFind /\ OffStats /\ OffStore /\ InitDelta

SpecDelta == InitDeltaOnly /\ [][NextDelta]_vars

\* ---------------------------------------------------------------- trust-region claims

\* C8 as stated: for every delta_w and every max_val the new delta is
\* min(max_val, |delta_w| * 2 + 0.1), lies in [0.1, max_val], and is max_val
\* whenever |delta_w| >= (max_val - 0.1) / 2.
C8_InRangeAnyMax ==
  delta_st = "updated" =>
    /\ delta = Min(max_val, Abs(delta_w) * 2 + Tenth)
    /\ Tenth <= delta /\ delta <= max_val
    /\ 2 * Abs(delta_w) >= max_val - Tenth => delta = max_val

\* C8 amended: for every delta_w and every max_val the new delta is
\* min(max_val, |delta_w| * 2 + 0.1) whatever delta was before, is at most max_val,
\* is max_val whenever |delta_w| >= (max_val - 0.1) / 2, and is at least 0.1 when
\* max_val >= 0.1.
C8_InRange ==
  delta_st = "updated" =>
    /\ \/ delta = max_val /\ max_val <= Abs(delta_w) * 2 + Tenth
       \/ delta = Abs(delta_w) * 2 + Tenth /\ delta <= max_val
    /\ delta <= max_val
    /\ max_val >= Tenth => Tenth <= delta
    /\ 2 * Abs(delta_w) >= max_val - Tenth => delta = max_val

\* a negative step at the threshold (2.45 for the default max_val 5.0) is capped
C8_Witness ==
  /\ delta_st = "updated"
  /\ max_val = DefaultMaxVal
  /\ delta_w < 0
  /\ 2 * Abs(delta_w) = max_val - Tenth
  /\ delta = max_val

====
